---- MODULE Spec2Model ----
(***************************************************************************)
(* Model of the chat-handler edge function of collagebot.                  *)
(*                                                                         *)
(* src/unnamed/part_001 holds four successive variants of the handler.     *)
(* Two of them carry the behaviour studied here:                           *)
(*   - the rate-limited variant (lines 235-395): authentication, the       *)
(*     rate_limits read / decide / write sequence, Gemini embedding,       *)
(*     match_documents, chat, analytics;                                   *)
(*   - the RAG variant (lines 462-689): API key validation, embed-only     *)
(*     mode, body validation, authentication, best-effort retrieval,       *)
(*     Bytez completion and the catch block's error message mapping.       *)
(* Every await of the handler is a step of its own, so that the requests   *)
(* of two slots interleave exactly where the code can be suspended.        *)
(* The match_documents function of src/update_rpc.sql is an operator of    *)
(* its own, called by both variants and, in SpecRetrieval, directly.       *)
(* Time is a discrete clock; one minute is TicksPerMinute ticks.           *)
(***************************************************************************)
EXTENDS Integers, Sequences, FiniteSets, TLC

(* ---------------------------------------------------------------- bounds *)
\* Resolution of the clock: ticks in one minute.
TicksPerMinute == 2
\* The clock stops advancing here.
MaxTime == 5
\* Requests received in one behaviour.
MaxRequests == 3
\* Rows of the documents table a direct call of match_documents ranges over.
MaxDocs == 4
\* The largest match_count of a direct call of match_documents.
MaxCount == 3

(* ------------------------------------------------------ program constants *)
\* part_001:271  const RATE_LIMIT = 10
RATE_LIMIT == 10
\* part_001:272  const WINDOW_MINUTES = 1
WINDOW_MINUTES == 1

\* Length of a window in ticks: WINDOW_MINUTES * 60 * 1000 ms in the code.
WindowTicks == WINDOW_MINUTES * TicksPerMinute

\* Concurrent handler invocations (one task per request).
Slots == {1, 2}
\* Identities the auth service can return; the endpoint is the constant
\* 'chat-handler', so a rate_limits key is determined by the user id.
Users == {"u1"}
NoUser == "nobody"

\* The absent row: what .single() yields as data when no row matches.
NoRow == [request_count |-> 0, window_start |-> -1]

VARIABLES
  deployed,     \* which variant of the handler is deployed: "rl" or "rag"
  env,          \* which provider API keys Deno.env holds
                \* (BYTEZ_API_KEY, OPENROUTER_API_KEY, GEMINI_API_KEY)
  clock,        \* wall clock, in ticks (new Date())
  rate_limits,  \* the rate_limits table: user -> row or NoRow
  req,          \* per slot: the handler invocation's local state
  received,     \* requests received so far
  allowLog,     \* history: user -> time -> number of requests Allowed at that time
  admin         \* the admin page: its upload in progress and the documents table

vars == <<deployed, env, clock, rate_limits, req, received, allowLog, admin>>

Times == 0..(MaxTime + 1)

(* ------------------------------------------------------------ rate limiter *)
\* Admit with the limit compared by > instead of >=.
AdmitOffByOne(rateData, now) ==
  IF rateData # NoRow
  THEN IF now - rateData.window_start < WindowTicks
       THEN IF rateData.request_count > RATE_LIMIT
            THEN [outcome |-> "Denied", op |-> "none",
                  resetAt |-> rateData.window_start + WindowTicks]
            ELSE [outcome |-> "Allowed", op |-> "increment", resetAt |-> -1]
       ELSE [outcome |-> "Allowed", op |-> "reset", resetAt |-> -1]
  ELSE [outcome |-> "Allowed", op |-> "insert", resetAt |-> -1]

\* Admit with the reset instant computed from now instead of windowStart.
AdmitResetFromNow(rateData, now) ==
  IF rateData # NoRow
  THEN IF now - rateData.window_start < WindowTicks
       THEN IF rateData.request_count >= RATE_LIMIT
            THEN [outcome |-> "Denied", op |-> "none", resetAt |-> now + WindowTicks]
            ELSE [outcome |-> "Allowed", op |-> "increment", resetAt |-> -1]
       ELSE [outcome |-> "Allowed", op |-> "reset", resetAt |-> -1]
  ELSE [outcome |-> "Allowed", op |-> "insert", resetAt |-> -1]

\* The decision of lines 284-320 on the row that was read and the captured
\* now: Denied with the reset instant, or Allowed with the write to make.
Admit(rateData, now) ==
  IF rateData # NoRow
  THEN IF now - rateData.window_start < WindowTicks
       THEN IF rateData.request_count >= RATE_LIMIT
            THEN [outcome |-> "Denied", op |-> "none",
                  resetAt |-> rateData.window_start + WindowTicks]
            ELSE [outcome |-> "Allowed", op |-> "increment", resetAt |-> -1]
       ELSE [outcome |-> "Allowed", op |-> "reset", resetAt |-> -1]
  ELSE [outcome |-> "Allowed", op |-> "insert", resetAt |-> -1]

\* WriteRow whose new-window update leaves window_start as it was.
WriteRowKeepsStart(stored, op, rateData, now) ==
  CASE op = "increment" ->
         IF stored = NoRow THEN stored
         ELSE [stored EXCEPT !.request_count = rateData.request_count + 1]
    [] op = "reset" ->
         IF stored = NoRow THEN stored
         ELSE [stored EXCEPT !.request_count = 1]
    [] op = "insert" ->
         IF stored = NoRow THEN [request_count |-> 1, window_start |-> now]
         ELSE stored
    [] OTHER -> stored

\* WriteRow whose new-window update adds one to the count it read instead
\* of setting the count to 1.
WriteRowResetAdds(stored, op, rateData, now) ==
  CASE op = "increment" ->
         IF stored = NoRow THEN stored
         ELSE [stored EXCEPT !.request_count = rateData.request_count + 1]
    [] op = "reset" ->
         IF stored = NoRow THEN stored
         ELSE [request_count |-> rateData.request_count + 1, window_start |-> now]
    [] op = "insert" ->
         IF stored = NoRow THEN [request_count |-> 1, window_start |-> now]
         ELSE stored
    [] OTHER -> stored

\* WriteRow whose increment writes the count it read, not the count plus one.
WriteRowDropsIncrement(stored, op, rateData, now) ==
  CASE op = "increment" ->
         IF stored = NoRow THEN stored
         ELSE [stored EXCEPT !.request_count = rateData.request_count]
    [] op = "reset" ->
         IF stored = NoRow THEN stored
         ELSE [request_count |-> 1, window_start |-> now]
    [] op = "insert" ->
         IF stored = NoRow THEN [request_count |-> 1, window_start |-> now]
         ELSE stored
    [] OTHER -> stored

\* The effect of the update / insert statements of lines 302-319 on the row
\* currently stored (an update matches no row when there is none; an insert
\* on an existing key violates the primary key; both results are ignored).
WriteRow(stored, op, rateData, now) ==
  CASE op = "increment" ->
         IF stored = NoRow THEN stored
         ELSE [stored EXCEPT !.request_count = rateData.request_count + 1]
    [] op = "reset" ->
         IF stored = NoRow THEN stored
         ELSE [request_count |-> 1, window_start |-> now]
    [] op = "insert" ->
         IF stored = NoRow THEN [request_count |-> 1, window_start |-> now]
         ELSE stored
    [] OTHER -> stored

(* --------------------------------------------------------------- retrieval *)
\* Similarities (in hundredths) of the stored documents to a query, in
\* storage order; the document at position i has id i.
Corpora == {<< >>, <<90, 60, 40, 30>>, <<50, 70>>}

\* The similarities a direct call of match_documents ranges over: those of
\* the four documents of a query that leaves two above 0.5, and 0.5 itself.
Similarities == {30, 40, 50, 60, 90}
\* The thresholds the handlers pass: 0.1 (line 336) and 0.5 (line 567).
Thresholds == {10, 50}

\* Candidates with the threshold compared by >= instead of >.
CandidatesInclusive(sims, threshold, taken) ==
  {i \in DOMAIN sims : i \notin taken /\ sims[i] >= threshold}

\* The ids of sims not in taken whose similarity is above the threshold.
Candidates(sims, threshold, taken) ==
  {i \in DOMAIN sims : i \notin taken /\ sims[i] > threshold}

\* TopMatches ordered by similarity asc: the least similar candidates first.
RECURSIVE TopMatchesAscending(_, _, _, _)
TopMatchesAscending(sims, threshold, count, taken) ==
  LET cand == Candidates(sims, threshold, taken) IN
  IF count = 0 \/ cand = {} THEN << >>
  ELSE LET best == CHOOSE i \in cand :
                     \A j \in cand : sims[i] < sims[j] \/ (sims[i] = sims[j] /\ i <= j)
       IN <<[id |-> best, similarity |-> sims[best]]>>
            \o TopMatchesAscending(sims, threshold, count - 1, taken \cup {best})

\* order by similarity desc limit match_count, ties by storage order.
RECURSIVE TopMatches(_, _, _, _)
TopMatches(sims, threshold, count, taken) ==
  LET cand == Candidates(sims, threshold, taken) IN
  IF count = 0 \/ cand = {} THEN << >>
  ELSE LET best == CHOOSE i \in cand :
                     \A j \in cand : sims[i] > sims[j] \/ (sims[i] = sims[j] /\ i <= j)
       IN <<[id |-> best, similarity |-> sims[best]]>>
            \o TopMatches(sims, threshold, count - 1, taken \cup {best})

\* The match_documents function of update_rpc.sql.
match_documents(sims, match_threshold, match_count) ==
  TopMatches(sims, match_threshold, match_count, {})

(* ------------------------------------------------------- request records *)
\* The response of a handler invocation; error is the text of the error
\* field as a sequence of fragments, <<>> when the payload has none.
NoResp ==
  [status |-> 0, error |-> <<>>, response |-> "none", citations |-> <<>>,
   resetAt |-> -1, embedding |-> "none"]

\* The arguments of a call of match_documents that ran: the similarities of
\* the stored documents to query_embedding, match_threshold, match_count.
NoRpc == [sims |-> << >>, match_threshold |-> -1, match_count |-> -1]

\* A slot in which no request is being handled.  docs is the match list the
\* search returned, context the ids of the matches restated in the system
\* prompt, citations the handler's citations list, sent the message list
\* handed to the completion provider, completion what the completion fetch
\* came to (rejected, notOk, empty, ok), awaiting the step whose call never
\* settled.
IdleReq ==
  [pc |-> "idle", body |-> "none", cred |-> "none", user |-> NoUser,
   rateData |-> NoRow, now |-> -1, admission |-> "none", op |-> "none",
   selects |-> 0, calls |-> {}, embedRes |-> "none", searchRes |-> "none",
   rpc |-> NoRpc, docs |-> <<>>, context |-> <<>>, citations |-> <<>>,
   prompt |-> "none", sent |-> <<>>, upStatus |-> 0, upBody |-> <<>>,
   completion |-> "none", awaiting |-> "none", kind |-> "none", resp |-> NoResp]

\* return new Response(JSON.stringify({ error }), { status })
Fail(q, status, error, kind) ==
  [q EXCEPT !.pc = "done", !.kind = kind,
            !.resp = [NoResp EXCEPT !.status = status, !.error = error]]

\* The shapes of the JSON body the handlers tell apart.
\* Chat bodies: well formed; no messages field (or one that is no list); an
\* empty list; a last message without string content; an earlier message
\* without string content; an earlier message whose role is neither 'user'
\* nor 'assistant'.  Embed bodies: { action: 'embed', text } with and
\* without a text.
ChatBodies ==
  {"ok", "noMessages", "emptyList", "badContent", "badHistory", "systemTurn"}
EmbedBodies == {"embed", "embedNoText"}
Bodies == ChatBodies \cup EmbedBodies
Creds == {"missing", "invalid", "valid"}

\* The messages list of a chat body; the content of a message is its text
\* as a sequence of fragments, none for a message without string content.
Messages(body) ==
  CASE body = "ok" ->
         <<[role |-> "user", content |-> <<"q1">>],
           [role |-> "assistant", content |-> <<"a1">>],
           [role |-> "user", content |-> <<"q2">>]>>
    [] body = "badContent" ->
         <<[role |-> "user", content |-> <<"q1">>],
           [role |-> "user", content |-> << >>]>>
    [] body = "badHistory" ->
         <<[role |-> "user", content |-> << >>],
           [role |-> "user", content |-> <<"q2">>]>>
    [] body = "systemTurn" ->
         <<[role |-> "system", content |-> <<"s1">>],
           [role |-> "user", content |-> <<"q2">>]>>
    [] OTHER -> << >>

(* ------------------------------------------- the rate-limited variant *)
\* Lines 241-259: parse the body, read the last message (a TypeError without
\* one), check the authorization header, create the Supabase client
\* (SUPABASE_URL and SUPABASE_ANON_KEY are taken to be set).
RLEntry(q) ==
  IF q.body \in {"noMessages", "emptyList"} \cup EmbedBodies
  THEN Fail(q, 500, <<"TypeError">>, "Unknown")
  ELSE IF q.cred = "missing"
  THEN Fail(q, 401, <<"Missing authorization header">>, "Unauthenticated")
  ELSE [q EXCEPT !.pc = "rlGetUser"]

RLReceive(r, body, cred, user) ==
  /\ deployed = "rl"
  /\ req[r].pc \in {"idle", "done"}
  /\ received < MaxRequests
  /\ received' = received + 1
  /\ req' = [req EXCEPT ![r] =
               RLEntry([IdleReq EXCEPT !.body = body, !.cred = cred,
                                       !.user = IF cred = "valid" THEN user ELSE NoUser])]
  /\ UNCHANGED <<deployed, env, clock, rate_limits, allowLog, admin>>

\* Lines 262-268: supabaseClient.auth.getUser().
RLAfterGetUser(q) ==
  IF q.cred # "valid"
  THEN Fail([q EXCEPT !.calls = q.calls \cup {"auth"}], 401,
            <<"Unauthorized">>, "Unauthenticated")
  ELSE [q EXCEPT !.calls = q.calls \cup {"auth"}, !.pc = "rlSelect"]

RLGetUser(r) ==
  /\ req[r].pc = "rlGetUser"
  /\ req' = [req EXCEPT ![r] = RLAfterGetUser(req[r])]
  /\ UNCHANGED <<deployed, env, clock, rate_limits, received, allowLog, admin>>

\* RLSelect without the filter on user_id: the row read is the row of
\* some key.
RLSelectAnyKey(r) ==
  /\ req[r].pc = "rlSelect"
  /\ \E u \in DOMAIN rate_limits :
       req' = [req EXCEPT ![r] =
                 [req[r] EXCEPT !.pc = "rlDecide",
                                !.rateData = rate_limits[u],
                                !.calls = req[r].calls \cup {"store"},
                                !.selects = req[r].selects + 1]]
  /\ UNCHANGED <<deployed, env, clock, rate_limits, received, allowLog, admin>>

\* Lines 275-280: select the row of (user.id, endpoint).
RLSelect(r) ==
  /\ req[r].pc = "rlSelect"
  /\ req' = [req EXCEPT ![r] =
               [req[r] EXCEPT !.pc = "rlDecide",
                              !.rateData = rate_limits[req[r].user],
                              !.calls = req[r].calls \cup {"store"},
                              !.selects = req[r].selects + 1]]
  /\ UNCHANGED <<deployed, env, clock, rate_limits, received, allowLog, admin>>

\* Lines 275-280 when the store answers the select with an error: data is
\* null and rateError, which nothing reads, holds the error.
RLSelectError(r) ==
  /\ req[r].pc = "rlSelect"
  /\ req' = [req EXCEPT ![r] =
               [req[r] EXCEPT !.pc = "rlDecide",
                              !.rateData = NoRow,
                              !.calls = req[r].calls \cup {"store"},
                              !.selects = req[r].selects + 1]]
  /\ UNCHANGED <<deployed, env, clock, rate_limits, received, allowLog, admin>>

\* RLAfterDecide without the return of the 429 response: a Denied request
\* goes on to the pipeline.
RLAfterDecideNoReturn(q, now) ==
  LET d == Admit(q.rateData, now) IN
  IF d.outcome = "Denied"
  THEN [q EXCEPT !.pc = "rlEmbed", !.now = now, !.admission = "Denied"]
  ELSE [q EXCEPT !.pc = "rlWrite", !.now = now, !.admission = "Allowed", !.op = d.op]

\* Lines 282-320 up to the write: capture now, decide, answer 429 when denied.
RLAfterDecide(q, now) ==
  LET d == Admit(q.rateData, now) IN
  IF d.outcome = "Denied"
  THEN [q EXCEPT !.pc = "done", !.now = now, !.admission = "Denied",
                 !.kind = "RateLimited",
                 !.resp = [NoResp EXCEPT !.status = 429,
                             !.error = <<"Rate limit exceeded. Please try again later.">>,
                             !.resetAt = d.resetAt]]
  ELSE [q EXCEPT !.pc = "rlWrite", !.now = now, !.admission = "Allowed", !.op = d.op]

RLDecide(r) ==
  /\ req[r].pc = "rlDecide"
  /\ req' = [req EXCEPT ![r] = RLAfterDecide(req[r], clock)]
  /\ allowLog' = IF req'[r].admission = "Allowed"
                 THEN [allowLog EXCEPT ![req[r].user][clock] = @ + 1]
                 ELSE allowLog
  /\ UNCHANGED <<deployed, env, clock, rate_limits, received, admin>>

\* Lines 302-319: the update or insert the decision chose.
RLWrite(r) ==
  /\ req[r].pc = "rlWrite"
  /\ rate_limits' = [rate_limits EXCEPT ![req[r].user] =
                       WriteRow(@, req[r].op, req[r].rateData, req[r].now)]
  /\ req' = [req EXCEPT ![r] = [req[r] EXCEPT !.pc = "rlEmbed"]]
  /\ UNCHANGED <<deployed, env, clock, received, allowLog, admin>>

\* Lines 302-319 when the store answers the update or insert with an
\* error: the awaited result is discarded and the handler goes on.
RLWriteError(r) ==
  /\ req[r].pc = "rlWrite"
  /\ req' = [req EXCEPT ![r] = [req[r] EXCEPT !.pc = "rlEmbed"]]
  /\ UNCHANGED <<deployed, env, clock, rate_limits, received, allowLog, admin>>

\* Lines 322-329: embeddingModel.embedContent(userMessage), of a client
\* built with GEMINI_API_KEY ?? '' and so called whether or not env holds
\* the key; a rejection or a result without embedding.values throws into
\* the catch of line 389.
RLAfterEmbed(q, outcome) ==
  LET c == [q EXCEPT !.calls = q.calls \cup {"embed"}, !.embedRes = outcome] IN
  IF outcome = "vector"
  THEN [c EXCEPT !.pc = "rlSearch"]
  ELSE Fail(c, 500, <<"embedContent ", outcome>>, "EmbeddingFailure")

RLEmbed(r, outcome) ==
  /\ req[r].pc = "rlEmbed"
  /\ req' = [req EXCEPT ![r] = RLAfterEmbed(req[r], outcome)]
  /\ UNCHANGED <<deployed, env, clock, rate_limits, received, allowLog, admin>>

\* Lines 333-354: rpc('match_documents', threshold 0.1, count 3); a search
\* error is thrown; the system prompt always carries the context section.
RLAfterSearch(q, failed, sims) ==
  IF failed
  THEN Fail([q EXCEPT !.calls = q.calls \cup {"search"}, !.searchRes = "error"],
            500, <<"searchError">>, "RetrievalFailure")
  ELSE LET docs == match_documents(sims, 10, 3) IN
       [q EXCEPT !.calls = q.calls \cup {"search"}, !.pc = "rlChat",
                 !.searchRes = "rows",
                 !.rpc = [sims |-> sims, match_threshold |-> 10, match_count |-> 3],
                 !.docs = docs,
                 !.context = [i \in DOMAIN docs |-> docs[i].id],
                 !.prompt = "grounded"]

RLSearch(r, failed, sims) ==
  /\ req[r].pc = "rlSearch"
  /\ req' = [req EXCEPT ![r] = RLAfterSearch(req[r], failed, sims)]
  /\ UNCHANGED <<deployed, env, clock, rate_limits, received, allowLog, admin>>

\* Lines 356-366: the history handed to startChat (every message but the
\* last, role 'user' or 'model') and the text handed to sendMessage (the
\* last message's content, 'undefined' without one, followed by the system
\* prompt).
ChatMessages(systemPrompt, messages) ==
  LET n == Len(messages)
      userMessage == IF messages[n].content = << >> THEN <<"undefined">>
                     ELSE messages[n].content
  IN [i \in 1..(n - 1) |->
        [role |-> IF messages[i].role = "user" THEN "user" ELSE "model",
         content |-> messages[i].content]]
     \o <<[role |-> "user",
           content |-> userMessage \o <<"\n\nSystem Instruction: ", systemPrompt>>]>>

\* Lines 356-367: chat.sendMessage and result.response.text().
RLAfterChat(q, outcome) ==
  LET c == [q EXCEPT !.calls = q.calls \cup {"complete"},
                     !.sent = ChatMessages(q.prompt, Messages(q.body))] IN
  IF outcome = "throws"
  THEN Fail(c, 500, <<"sendMessage">>, "UpstreamCompletion")
  ELSE [c EXCEPT !.pc = "rlAnalytics",
                 !.resp = [NoResp EXCEPT !.response = outcome]]

RLChat(r, outcome) ==
  /\ req[r].pc = "rlChat"
  /\ req' = [req EXCEPT ![r] = RLAfterChat(req[r], outcome)]
  /\ UNCHANGED <<deployed, env, clock, rate_limits, received, allowLog, admin>>

\* Lines 369-387: userMessage.substring(0, 200) throws on a last message
\* without content; otherwise the analytics insert (result ignored) and the
\* success response { response, context: docs }.
RLAfterAnalytics(q) ==
  IF q.body = "badContent"
  THEN Fail(q, 500, <<"TypeError">>, "Unknown")
  ELSE [q EXCEPT !.pc = "done", !.kind = "Success",
                 !.resp = [q.resp EXCEPT !.status = 200, !.citations = q.docs]]

RLAnalytics(r) ==
  /\ req[r].pc = "rlAnalytics"
  /\ req' = [req EXCEPT ![r] = RLAfterAnalytics(req[r])]
  /\ UNCHANGED <<deployed, env, clock, rate_limits, received, allowLog, admin>>

(* ------------------------------------------------------ the RAG variant *)
\* error.message?.includes(word): the fragments of a message that matter
\* to the mapping are fragments of their own.
Includes(msg, word) == \E i \in DOMAIN msg : msg[i] = word

\* Lines 670-682: the error text the catch block derives from error.message.
CatchMessage(msg) ==
  IF Includes(msg, "API key") \/ Includes(msg, "401")
  THEN <<"Invalid API key configuration">>
  ELSE IF Includes(msg, "quota") \/ Includes(msg, "429")
  THEN <<"API quota exceeded. Please try again later.">>
  ELSE IF Includes(msg, "network") \/ Includes(msg, "fetch")
  THEN <<"Network error. Please check your connection and try again.">>
  ELSE IF msg # << >>
  THEN <<"Error: ">> \o msg
  ELSE <<"An unexpected error occurred">>

\* Lines 663-688: the catch block answers status 200 with the mapped text.
Catch(q, msg, kind) == Fail(q, 200, CatchMessage(msg), kind)

\* Line 642: `Bytez API returned ${response.status}: ${errorText}`.
BytezErrorMessage(status, errorText) ==
  <<"Bytez API returned ", ToString(status), ": ">> \o errorText

\* Lines 467-548: API key validation, the embed action's text check, the
\* validation of messages, the authorization header, createClient
\* (SUPABASE_URL and SUPABASE_ANON_KEY are taken to be set).
RagEntry(q) ==
  IF ~env.bytez
  THEN Fail(q, 200, <<"Server configuration error: Bytez ", "API key", " not configured">>,
            "ConfigurationMissing")
  ELSE IF ~env.openrouter
  THEN Fail(q, 200, <<"Server configuration error: OpenRouter ", "API key", " not configured">>,
            "ConfigurationMissing")
  ELSE IF q.body = "embedNoText"
  THEN Fail(q, 200, <<"Invalid request: text is required for embedding">>, "InvalidInput")
  ELSE IF q.body = "embed"
  THEN [q EXCEPT !.pc = "ragEmbedOnly"]
  ELSE IF q.body \in {"noMessages", "emptyList"}
  THEN Fail(q, 200, <<"Invalid request: messages array is required">>, "InvalidInput")
  ELSE IF q.body = "badContent"
  THEN Fail(q, 200, <<"Invalid request: last message must have content">>, "InvalidInput")
  ELSE IF q.cred = "missing"
  THEN Fail(q, 200, <<"Missing authorization header">>, "Unauthenticated")
  ELSE [q EXCEPT !.pc = "ragGetUser"]

RagReceive(r, body, cred, user) ==
  /\ deployed = "rag"
  /\ req[r].pc \in {"idle", "done"}
  /\ received < MaxRequests
  /\ received' = received + 1
  /\ req' = [req EXCEPT ![r] =
               RagEntry([IdleReq EXCEPT !.body = body, !.cred = cred,
                                        !.user = IF cred = "valid" THEN user ELSE NoUser])]
  /\ UNCHANGED <<deployed, env, clock, rate_limits, allowLog, admin>>

\* The results of the embeddings request of generateEmbedding (lines
\* 406-434): a vector; a non-ok status; a rejected fetch; a body without
\* data[0] (a TypeError); a data[0] without an embedding (undefined).
EmbedOutcomes == {"vector", "httpError", "networkError", "malformed", "absent"}
EmbedThrows == {"httpError", "networkError", "malformed"}

\* Lines 501-514: the embed action answers the embedding or the failure.
RagAfterEmbedOnly(q, outcome) ==
  LET c == [q EXCEPT !.calls = q.calls \cup {"embed"}, !.embedRes = outcome] IN
  IF outcome \in EmbedThrows
  THEN Fail(c, 200, <<"Embedding generation failed: ", outcome>>, "EmbeddingFailure")
  ELSE [c EXCEPT !.pc = "done", !.kind = "Success",
                 !.resp = [NoResp EXCEPT !.status = 200,
                             !.embedding = IF outcome = "vector" THEN "vector" ELSE "none"]]

RagEmbedOnly(r, outcome) ==
  /\ req[r].pc = "ragEmbedOnly"
  /\ req' = [req EXCEPT ![r] = RagAfterEmbedOnly(req[r], outcome)]
  /\ UNCHANGED <<deployed, env, clock, rate_limits, received, allowLog, admin>>

\* RagAfterGetUser without the check of userError and user.
RagAfterGetUserUnchecked(q) ==
  [q EXCEPT !.calls = q.calls \cup {"auth"}, !.pc = "ragEmbed"]

\* Lines 550-557: supabaseClient.auth.getUser().
RagAfterGetUser(q) ==
  IF q.cred # "valid"
  THEN Fail([q EXCEPT !.calls = q.calls \cup {"auth"}], 200,
            <<"Unauthorized">>, "Unauthenticated")
  ELSE [q EXCEPT !.calls = q.calls \cup {"auth"}, !.pc = "ragEmbed"]

RagGetUser(r) ==
  /\ req[r].pc = "ragGetUser"
  /\ req' = [req EXCEPT ![r] = RagAfterGetUser(req[r])]
  /\ UNCHANGED <<deployed, env, clock, rate_limits, received, allowLog, admin>>

\* Lines 591-610: the grounded prompt when contextText is not empty.
SystemPrompt(contextText) ==
  IF Len(contextText) > 0 THEN "grounded" ELSE "ungrounded"

\* Lines 565-566 and 585-588: generateEmbedding inside the RAG try; a throw
\* is caught and the request continues without context.
RagAfterEmbed(q, outcome) ==
  LET c == [q EXCEPT !.calls = q.calls \cup {"embed"}, !.embedRes = outcome] IN
  IF outcome \in EmbedThrows
  THEN [c EXCEPT !.pc = "ragComplete", !.docs = << >>, !.prompt = SystemPrompt(<< >>)]
  ELSE [c EXCEPT !.pc = "ragSearch"]

RagEmbed(r, outcome) ==
  /\ req[r].pc = "ragEmbed"
  /\ req' = [req EXCEPT ![r] = RagAfterEmbed(req[r], outcome)]
  /\ UNCHANGED <<deployed, env, clock, rate_limits, received, allowLog, admin>>

\* searchDocuments (lines 437-460) with threshold 0.5 and count 3: an rpc
\* error, a throw and null data all yield []; an undefined query embedding
\* matches nothing.
SearchResults == {"rows", "error", "throws", "null"}

searchDocuments(embedRes, result, sims) ==
  IF result = "rows" /\ embedRes = "vector"
  THEN match_documents(sims, 50, 3)
  ELSE << >>

\* RagAfterSearch with the citations assigned before the context is built:
\* a throw of doc.content.substring leaves the citations set.
RagAfterSearchCitesFirst(q, result, sims, nullContent) ==
  LET relevantDocs == searchDocuments(q.embedRes, result, sims)
      thrown == nullContent /\ Len(relevantDocs) > 0
      contextText == IF thrown THEN << >>
                     ELSE [i \in DOMAIN relevantDocs |-> relevantDocs[i].id]
  IN [q EXCEPT !.calls = q.calls \cup {"search"}, !.pc = "ragComplete",
               !.searchRes = result,
               !.rpc = IF result = "rows" /\ q.embedRes = "vector"
                       THEN [sims |-> sims, match_threshold |-> 50, match_count |-> 3]
                       ELSE NoRpc,
               !.docs = relevantDocs, !.context = contextText,
               !.citations = relevantDocs,
               !.prompt = SystemPrompt(contextText)]

\* Lines 567-588 and 591-610: the search, the context, the citations, the
\* prompt.  nullContent: a returned row has a null content, so that
\* doc.content.substring throws before contextText and citations are
\* assigned and the catch of line 585 continues without them.
RagAfterSearch(q, result, sims, nullContent) ==
  LET relevantDocs == searchDocuments(q.embedRes, result, sims)
      thrown == nullContent /\ Len(relevantDocs) > 0
      contextText == IF thrown THEN << >>
                     ELSE [i \in DOMAIN relevantDocs |-> relevantDocs[i].id]
      citations == IF thrown THEN << >>
                   ELSE [i \in DOMAIN relevantDocs |->
                           [id |-> relevantDocs[i].id,
                            similarity |-> relevantDocs[i].similarity]]
  IN [q EXCEPT !.calls = q.calls \cup {"search"}, !.pc = "ragComplete",
               !.searchRes = result,
               !.rpc = IF result = "rows" /\ q.embedRes = "vector"
                       THEN [sims |-> sims, match_threshold |-> 50, match_count |-> 3]
                       ELSE NoRpc,
               !.docs = relevantDocs, !.context = contextText,
               !.citations = citations,
               !.prompt = SystemPrompt(contextText)]

RagSearch(r, result, sims, nullContent) ==
  /\ req[r].pc = "ragSearch"
  /\ req' = [req EXCEPT ![r] = RagAfterSearch(req[r], result, sims, nullContent)]
  /\ UNCHANGED <<deployed, env, clock, rate_limits, received, allowLog, admin>>

\* What the completion provider can answer: the statuses and error bodies
\* of a non-ok response, the messages of a rejected fetch, the answer texts.
UpStatuses == {401, 429, 500, 503}
UpBodies ==
  {<< >>, <<"boom">>, <<"quota", " exhausted">>, <<"bad ", "API key">>,
   <<"upstream ", "fetch", " timed out">>}
FetchErrors == {<<"error sending request">>, <<"fetch", " failed">>}
Answers == {"answer", ""}

\* Lines 612-622: the system prompt, then every message with role
\* 'assistant' kept and any other role sent as 'user'.
apiMessages(systemPrompt, messages) ==
  <<[role |-> "system", content |-> <<systemPrompt>>]>>
  \o [i \in DOMAIN messages |->
        [role |-> IF messages[i].role = "assistant" THEN "assistant" ELSE "user",
         content |-> messages[i].content]]

\* Lines 612-661: the Bytez call, the non-ok throw, the empty answer throw,
\* the success response with the citations.
RagAfterComplete(q, outcome, status, errorText, fetchError, text) ==
  LET c == [q EXCEPT !.calls = q.calls \cup {"complete"},
                     !.sent = apiMessages(q.prompt, Messages(q.body))] IN
  CASE outcome = "rejected" ->
         Catch([c EXCEPT !.completion = "rejected"], fetchError, "UpstreamCompletion")
    [] outcome = "notOk" ->
         Catch([c EXCEPT !.completion = "notOk", !.upStatus = status,
                         !.upBody = errorText],
               BytezErrorMessage(status, errorText), "UpstreamCompletion")
    [] OTHER ->
         IF text = ""
         THEN Catch([c EXCEPT !.completion = "empty"],
                    <<"Invalid response from AI model">>, "UpstreamCompletion")
         ELSE [c EXCEPT !.pc = "done", !.kind = "Success", !.completion = "ok",
                        !.resp = [NoResp EXCEPT !.status = 200, !.response = text,
                                    !.citations = q.citations]]

RagComplete(r, outcome, status, errorText, fetchError, text) ==
  /\ req[r].pc = "ragComplete"
  /\ req' = [req EXCEPT ![r] =
               RagAfterComplete(req[r], outcome, status, errorText, fetchError, text)]
  /\ UNCHANGED <<deployed, env, clock, rate_limits, received, allowLog, admin>>

\* The steps at which the handler awaits the rate_limits table (lines 275
\* and 302-319), the embedding provider (lines 327, 409, 503, 566) or the
\* completion provider (lines 366, 625).
Awaits ==
  {"rlSelect", "rlWrite", "rlEmbed", "rlChat",
   "ragEmbedOnly", "ragEmbed", "ragComplete"}

\* The awaited call never settles.  No await of the handlers is raced
\* against a timer (fetch is called without a signal), so the invocation
\* stays suspended at it.
NoReply(r) ==
  /\ req[r].pc \in Awaits
  /\ req' = [req EXCEPT ![r] = [req[r] EXCEPT !.pc = "pending",
                                              !.awaiting = req[r].pc]]
  /\ UNCHANGED <<deployed, env, clock, rate_limits, received, allowLog, admin>>

\* A direct call of match_documents(query_embedding, match_threshold,
\* match_count) against a documents table whose rows have the similarities
\* sims to the query.
MatchDocuments(r, sims, match_threshold, match_count) ==
  /\ req[r].pc = "idle"
  /\ req' = [req EXCEPT ![r] =
               [IdleReq EXCEPT !.pc = "returned", !.calls = {"search"},
                               !.searchRes = "rows",
                               !.rpc = [sims |-> sims,
                                        match_threshold |-> match_threshold,
                                        match_count |-> match_count],
                               !.docs = match_documents(sims, match_threshold,
                                                        match_count)]]
  /\ UNCHANGED <<deployed, env, clock, rate_limits, received, allowLog, admin>>

(* ------------------------------------------------------------ admin upload *)
\* src/src/pages/Admin.jsx handleFileUpload with src/src/lib/gemini.js
\* embedText (lines 98-121).  uploading and message are the component's
\* state, embedding what embedText returned, saved whether this upload
\* inserted its row, rows the documents rows the page has inserted.
IdleAdmin ==
  [pc |-> "idle", uploading |-> FALSE, message |-> "none", text |-> << >>,
   embedding |-> "none", saved |-> FALSE, rows |-> 0]

\* The files the input can hand over: over 10 MB, of another type than PDF
\* or plain text, or accepted.
Files == {"tooLarge", "badType", "accepted"}

\* Admin.jsx lines 148-164: the catch block's message for a thrown error,
\* and the finally block.
UploadFailed(a, msg) ==
  [a EXCEPT !.pc = "ended", !.uploading = FALSE, !.message = "error",
            !.text = IF Includes(msg, "fetch") \/ Includes(msg, "network")
                     THEN <<"Network error. Please check your internet connection and try again.">>
                     ELSE IF Includes(msg, "Embedding")
                     THEN <<"Embedding generation failed: ">> \o msg
                     ELSE IF Includes(msg, "PDF")
                     THEN <<"Failed to read PDF. The file may be corrupted or password-protected.">>
                     ELSE msg]

\* Admin.jsx lines 79-105: the size and type checks, then setUploading(true).
AfterFileChosen(a, file) ==
  IF file = "tooLarge"
  THEN [IdleAdmin EXCEPT !.pc = "ended", !.message = "error", !.rows = a.rows,
                         !.text = <<"File size exceeds 10MB limit.">>]
  ELSE IF file = "badType"
  THEN [IdleAdmin EXCEPT !.pc = "ended", !.message = "error", !.rows = a.rows,
                         !.text = <<"Only PDF and TXT files are supported. Please upload a valid file.">>]
  ELSE [IdleAdmin EXCEPT !.pc = "reading", !.uploading = TRUE, !.message = "info",
                         !.rows = a.rows]

handleFileUpload(file) ==
  /\ admin.pc \in {"idle", "ended"}
  /\ received < MaxRequests
  /\ admin' = AfterFileChosen(admin, file)
  /\ UNCHANGED <<deployed, env, clock, rate_limits, req, received, allowLog>>

\* What reading the file comes to: text, nothing but blanks, or a throw of
\* extractTextFromPdf.
ReadResults == {"text", "blank", "throws"}

\* Admin.jsx lines 108-124 and gemini.js lines 100-102: the file is read
\* and, when it has text, embedText invokes chat-handler with
\* { action: 'embed', text } under the session's credentials.
UploadRead(r, result, user) ==
  /\ admin.pc = "reading"
  /\ req[r].pc \in {"idle", "done"}
  /\ IF result = "text"
     THEN /\ admin' = [admin EXCEPT !.pc = "embedding"]
          /\ received' = received + 1
          /\ req' = [req EXCEPT ![r] =
                LET q == [IdleReq EXCEPT !.body = "embed", !.cred = "valid", !.user = user]
                IN IF deployed = "rag" THEN RagEntry(q) ELSE RLEntry(q)]
     ELSE /\ admin' = UploadFailed(admin,
                         IF result = "blank"
                         THEN <<"The file appears to be empty or contains no readable text.">>
                         ELSE <<"Invalid ", "PDF", " structure">>)
          /\ UNCHANGED <<req, received>>
  /\ UNCHANGED <<deployed, env, clock, rate_limits, allowLog>>

\* How the invocation reaches the page: the handler's response, or a
\* request that could not be sent.
Transports == {"response", "fetchError"}

\* embedText as first written (gemini.js lines 38-42): it returns null
\* without calling the handler's result into question.
AfterEmbedTextStub(a, resp, transport) ==
  [a EXCEPT !.pc = "saving", !.embedding = "none"]

\* gemini.js lines 104-121 and Admin.jsx line 124: invoke reports an error
\* for a request that failed or a non-2xx status; a body without an
\* embedding throws, with the body's error text when it has one; else the
\* embedding is returned to handleFileUpload.
AfterEmbedText(a, resp, transport) ==
  IF transport = "fetchError"
  THEN UploadFailed(a, <<"Embedding", " failed: ", "Failed to send a request to the Edge Function">>)
  ELSE IF resp.status < 200 \/ resp.status > 299
  THEN UploadFailed(a, <<"Embedding", " failed: ", "Edge Function returned a non-2xx status code">>)
  ELSE IF resp.embedding = "none"
  THEN IF resp.error # << >>
       THEN UploadFailed(a, <<"Embedding", " API error: ">> \o resp.error)
       ELSE UploadFailed(a, <<"No embedding returned from server">>)
  ELSE [a EXCEPT !.pc = "saving", !.embedding = resp.embedding]

embedText(r, transport) ==
  /\ admin.pc = "embedding"
  /\ req[r].pc = "done"
  /\ admin' = AfterEmbedText(admin, req[r].resp, transport)
  /\ UNCHANGED <<deployed, env, clock, rate_limits, req, received, allowLog>>

\* The results of the insert into documents: stored, a unique violation
\* (code 23505), another error.
InsertResults == {"stored", "23505", "error"}

\* Admin.jsx lines 127-147: the insert and what follows it.
AfterInsert(a, result) ==
  IF result = "stored"
  THEN [a EXCEPT !.pc = "ended", !.uploading = FALSE, !.message = "success",
                 !.saved = TRUE, !.rows = a.rows + 1]
  ELSE IF result = "23505"
  THEN UploadFailed(a, <<"A document with this name already exists.">>)
  ELSE UploadFailed(a, <<"Database error: ", "insert failed">>)

UploadInsert(result) ==
  /\ admin.pc = "saving"
  /\ admin' = AfterInsert(admin, result)
  /\ UNCHANGED <<deployed, env, clock, rate_limits, req, received, allowLog>>

\* The retention of cleanup_old_rate_limits in ticks: INTERVAL '1 hour'.
HourTicks == 60 * TicksPerMinute

\* part_000 lines 14-23: delete the rows whose window_start is more than
\* one hour before NOW().
AfterCleanup(table, now) ==
  [u \in DOMAIN table |->
     IF table[u] # NoRow /\ table[u].window_start < now - HourTicks
     THEN NoRow ELSE table[u]]

cleanup_old_rate_limits ==
  /\ rate_limits' = AfterCleanup(rate_limits, clock)
  /\ UNCHANGED <<deployed, env, clock, req, received, allowLog, admin>>

\* The clock advances.
Tick ==
  /\ clock < MaxTime
  /\ clock' = clock + 1
  /\ UNCHANGED <<deployed, env, rate_limits, req, received, allowLog, admin>>

(* ------------------------------------------------------------ specification *)
\* A table the handler can have left behind at clock t0 < WindowTicks: no row,
\* or the row of a window opened by a request at time 0 and counting c
\* requests, the other c - 1 of them admitted at t0.
InitTable(c, t0) ==
  /\ clock = t0
  /\ rate_limits = [u \in Users |->
        IF c = 0 THEN NoRow ELSE [request_count |-> c, window_start |-> 0]]
  /\ allowLog = [u \in Users |-> [t \in Times |->
        IF c = 0 THEN 0
        ELSE (IF t = 0 THEN 1 ELSE 0) + (IF t = t0 THEN c - 1 ELSE 0)]]

\* The request counts the initial table may hold: none, one below the
\* limit, the limit.
InitCounts == {0, RATE_LIMIT - 1, RATE_LIMIT}

Init ==
  /\ deployed \in {"rl", "rag"}
  /\ env \in [bytez : BOOLEAN, openrouter : BOOLEAN, gemini : BOOLEAN]
  /\ deployed = "rl" => env.bytez /\ env.openrouter
  /\ deployed = "rag" => env.gemini
  /\ req = [r \in Slots |-> IdleReq]
  /\ received = 0
  /\ admin = IdleAdmin
  /\ \E c \in InitCounts, t0 \in 0..(WindowTicks - 1) :
        /\ (c = 0 => t0 = 0)
        /\ InitTable(c, t0)

\* One request at a time: the handler invocations run one after another.
Next ==
  \/ Tick
  \/ \E body \in Bodies, cred \in Creds, user \in Users :
        RLReceive(1, body, cred, user)
  \/ RLGetUser(1)
  \/ RLSelect(1)
  \/ RLDecide(1)
  \/ RLWrite(1)
  \/ \E outcome \in {"vector", "httpError", "networkError"} : RLEmbed(1, outcome)
  \/ \E failed \in BOOLEAN, sims \in Corpora : RLSearch(1, failed, sims)
  \/ \E outcome \in {"answer", "", "throws"} : RLChat(1, outcome)
  \/ RLAnalytics(1)
  \/ \E body \in Bodies, cred \in Creds, user \in Users :
        RagReceive(1, body, cred, user)
  \/ \E outcome \in EmbedOutcomes : RagEmbedOnly(1, outcome)
  \/ RagGetUser(1)
  \/ \E outcome \in EmbedOutcomes : RagEmbed(1, outcome)
  \/ \E result \in SearchResults, sims \in Corpora, nullContent \in BOOLEAN :
        RagSearch(1, result, sims, nullContent)
  \/ \E status \in UpStatuses, errorText \in UpBodies :
        RagComplete(1, "notOk", status, errorText, << >>, "")
  \/ \E fetchError \in FetchErrors :
        RagComplete(1, "rejected", 0, << >>, fetchError, "")
  \/ \E text \in Answers :
        RagComplete(1, "ok", 0, << >>, << >>, text)
  \/ NoReply(1)

Spec == Init /\ [][Next]_vars

\* Concurrent invocations of the rate-limited variant by authenticated
\* users with well-formed bodies whose provider calls succeed: the requests
\* that reach the rate_limits table, interleaved at every await.
InitConc == Init /\ deployed = "rl" /\ env.gemini

NextConc ==
  \/ Tick
  \/ \E r \in Slots, user \in Users : RLReceive(r, "ok", "valid", user)
  \/ \E r \in Slots : RLGetUser(r)
  \/ \E r \in Slots : RLSelect(r)
  \/ \E r \in Slots : RLDecide(r)
  \/ \E r \in Slots : RLWrite(r)
  \/ \E r \in Slots : RLEmbed(r, "vector")
  \/ \E r \in Slots : RLSearch(r, FALSE, << >>)
  \/ \E r \in Slots : RLChat(r, "answer")
  \/ \E r \in Slots : RLAnalytics(r)

SpecConc == InitConc /\ [][NextConc]_vars

\* The match_documents function on its own: one call with any documents
\* table of up to MaxDocs rows, a threshold the handlers use and a count of
\* up to MaxCount, no handler deployed.
SimLists == UNION {[1..n -> Similarities] : n \in 0..MaxDocs}

InitRetrieval ==
  /\ deployed = "none"
  /\ env = [bytez |-> TRUE, openrouter |-> TRUE, gemini |-> TRUE]
  /\ req = [r \in Slots |-> IdleReq]
  /\ received = 0
  /\ admin = IdleAdmin
  /\ InitTable(0, 0)

NextRetrieval ==
  /\ req[1].pc = "idle"
  /\ \E sims \in SimLists, match_threshold \in Thresholds, match_count \in 0..MaxCount :
        MatchDocuments(1, sims, match_threshold, match_count)

SpecRetrieval == InitRetrieval /\ [][NextRetrieval]_vars

\* A failing store: the requests of SpecConc handled one after another,
\* where each call of the rate_limits table may be answered with an error.
NextStore ==
  \/ Tick
  \/ \E user \in Users : RLReceive(1, "ok", "valid", user)
  \/ RLGetUser(1)
  \/ RLSelect(1)
  \/ RLSelectError(1)
  \/ RLDecide(1)
  \/ RLWrite(1)
  \/ RLWriteError(1)
  \/ RLEmbed(1, "vector")
  \/ RLSearch(1, FALSE, << >>)
  \/ RLChat(1, "answer")
  \/ RLAnalytics(1)

SpecStore == InitConc /\ [][NextStore]_vars

\* The rows a key's window can start from at clock 0: none, or a window
\* opened at time 0 counting one below the limit or the limit.
InitRows ==
  {NoRow} \cup {[request_count |-> c, window_start |-> 0] : c \in InitCounts \ {0}}

\* Housekeeping: requests handled one after another while
\* cleanup_old_rate_limits runs at any point, on a table whose row was
\* opened in the current minute or more than an hour ago.
OldRows ==
  {[request_count |-> c, window_start |-> 0 - HourTicks - 1] : c \in InitCounts \ {0}}

InitCleanup ==
  /\ deployed = "rl"
  /\ env = [bytez |-> TRUE, openrouter |-> TRUE, gemini |-> TRUE]
  /\ req = [r \in Slots |-> IdleReq]
  /\ received = 0
  /\ admin = IdleAdmin
  /\ clock = 0
  /\ rate_limits \in [Users -> InitRows \cup OldRows]
  /\ allowLog = [u \in Users |-> [t \in Times |->
        IF t = 0 /\ rate_limits[u].window_start = 0
        THEN rate_limits[u].request_count ELSE 0]]

NextCleanup ==
  \/ Tick
  \/ cleanup_old_rate_limits
  \/ \E user \in Users : RLReceive(1, "ok", "valid", user)
  \/ RLGetUser(1)
  \/ RLSelect(1)
  \/ RLDecide(1)
  \/ RLWrite(1)
  \/ RLEmbed(1, "vector")
  \/ RLSearch(1, FALSE, << >>)
  \/ RLChat(1, "answer")
  \/ RLAnalytics(1)

SpecCleanup == InitCleanup /\ [][NextCleanup]_vars

\* The admin upload against either variant of the handler: one upload after
\* another, each invoking the handler's embed action in slot 1.
InitUpload == Init /\ rate_limits = [u \in Users |-> NoRow]

NextUpload ==
  \/ \E file \in Files : handleFileUpload(file)
  \/ \E result \in ReadResults, user \in Users : UploadRead(1, result, user)
  \/ \E outcome \in EmbedOutcomes : RagEmbedOnly(1, outcome)
  \/ \E transport \in Transports : embedText(1, transport)
  \/ \E result \in InsertResults : UploadInsert(result)

SpecUpload == InitUpload /\ [][NextUpload]_vars

\* Two keys: invocations of the rate-limited variant by two users, the
\* requests of one user interleaved with those of the other, each key
\* starting from a table row of its own (none, one below the limit, the
\* limit; its requests all admitted at time 0).
Keys == {"u1", "u2"}

\* The user whose requests a slot serves.
KeyOf(r) == IF r = 1 THEN "u1" ELSE "u2"

InitKeys ==
  /\ deployed = "rl"
  /\ env = [bytez |-> TRUE, openrouter |-> TRUE, gemini |-> TRUE]
  /\ req = [r \in Slots |-> IdleReq]
  /\ received = 0
  /\ admin = IdleAdmin
  /\ clock = 0
  /\ rate_limits \in [Keys -> InitRows]
  /\ allowLog = [u \in Keys |-> [t \in Times |->
        IF t = 0 THEN rate_limits[u].request_count ELSE 0]]

NextKeys ==
  \/ Tick
  \/ \E r \in Slots : RLReceive(r, "ok", "valid", KeyOf(r))
  \/ \E r \in Slots : RLGetUser(r)
  \/ \E r \in Slots : RLSelect(r)
  \/ \E r \in Slots : RLDecide(r)
  \/ \E r \in Slots : RLWrite(r)
  \/ \E r \in Slots : RLEmbed(r, "vector")
  \/ \E r \in Slots : RLSearch(r, FALSE, << >>)
  \/ \E r \in Slots : RLChat(r, "answer")
  \/ \E r \in Slots : RLAnalytics(r)

SpecKeys == InitKeys /\ [][NextKeys]_vars

(* ------------------------------------------------------------------ claims *)
\* The number of requests of user u Allowed at the times from .. to - 1.
RECURSIVE AllowedIn(_, _, _)
AllowedIn(u, from, to) ==
  IF from >= to THEN 0
  ELSE (IF from \in Times THEN allowLog[u][from] ELSE 0) + AllowedIn(u, from + 1, to)

\* The number of requests of user u Allowed in the window now stored.
AllowedInWindow(u) ==
  AllowedIn(u, rate_limits[u].window_start, rate_limits[u].window_start + WindowTicks)

\* The collaborator calls that come after the authentication gate.
PipelineCalls == {"store", "embed", "search", "complete"}

\* C1: requests of one key handled one after another: once RATE_LIMIT
\* requests have been Allowed in the current window, a request decided while
\* now - window_start < W is Denied; while fewer have been, it is Allowed.
C1_LimitReachedThenDenied ==
  [][\A r \in Slots :
       LET row == rate_limits[req[r].user] IN
       ( /\ req[r].pc = "rlDecide"
         /\ req'[r].pc # "rlDecide"
         /\ row # NoRow
         /\ clock - row.window_start < WindowTicks )
       => IF AllowedInWindow(req[r].user) >= RATE_LIMIT
          THEN req'[r].admission = "Denied"
          ELSE req'[r].admission = "Allowed"]_vars

\* C1 witness: after the request that brought the window to RATE_LIMIT, a
\* further request was Denied in that window.
C1_Witness ==
  \E r \in Slots :
    /\ req[r].admission = "Denied"
    /\ received >= 2
    /\ rate_limits[req[r].user].request_count = RATE_LIMIT
    /\ AllowedInWindow(req[r].user) = RATE_LIMIT
    /\ allowLog[req[r].user][req[r].now] > 0

\* C2: for any interleaving of concurrent requests of one key, the number
\* of requests Allowed in the stored window never exceeds RATE_LIMIT, and
\* once every Allowed request has written, request_count equals the number
\* of requests Allowed in that window.
C2_NoLostUpdate ==
  \A u \in Users :
    rate_limits[u] # NoRow =>
      /\ AllowedInWindow(u) <= RATE_LIMIT
      /\ (\A r \in Slots : ~(req[r].pc = "rlWrite" /\ req[r].user = u))
           => rate_limits[u].request_count = AllowedInWindow(u)

\* C3: a request that finds a window with now - window_start >= W is
\* Allowed and, once it has written, the window holds request_count = 1 and
\* window_start = now, whatever the count it found.
C3_ExpiredWindowResets ==
  \A r \in Slots :
    LET q == req[r] IN
    ( /\ q.now >= 0
      /\ q.rateData # NoRow
      /\ q.now - q.rateData.window_start >= WindowTicks )
    => /\ q.admission = "Allowed"
       /\ (q.pc # "rlWrite" /\ q.awaiting # "rlWrite") =>
            rate_limits[q.user] = [request_count |-> 1, window_start |-> q.now]

\* C3 witness: a request found an expired window that had reached the
\* limit, and has reset it.
C3_Witness ==
  \E r \in Slots :
    LET q == req[r] IN
    /\ q.now >= 0
    /\ q.rateData # NoRow
    /\ q.rateData.request_count >= RATE_LIMIT
    /\ q.now - q.rateData.window_start >= WindowTicks
    /\ q.pc = "done"
    /\ rate_limits[q.user] = [request_count |-> 1, window_start |-> q.now]

\* C4 (as stated): in any interval of length W at most RATE_LIMIT requests
\* of one key are Allowed, intervals that straddle a window reset included.
C4_AnyIntervalBounded ==
  \A u \in Users, t \in Times : AllowedIn(u, t, t + WindowTicks) <= RATE_LIMIT

\* C4 (amended): for requests of one key handled one after another, at most
\* RATE_LIMIT requests are Allowed in the fixed window that is stored, from
\* its window_start to window_start + W.
C4_FixedWindowBounded ==
  \A u \in Users :
    rate_limits[u] # NoRow => AllowedInWindow(u) <= RATE_LIMIT

\* C4 witness: an interval of length W that straddles a reset holds more
\* than RATE_LIMIT Allowed requests while the stored window holds fewer.
C4_Witness ==
  \E u \in Users, t \in Times :
    /\ rate_limits[u] # NoRow
    /\ t < rate_limits[u].window_start
    /\ AllowedIn(u, t, t + WindowTicks) > RATE_LIMIT
    /\ AllowedInWindow(u) < RATE_LIMIT

\* C5: under any interleaving, the step that Denies a request answers the
\* reset instant window_start + W of the window it read, which is the window
\* stored at that moment, and the time to wait, window_start + W - now, is
\* strictly positive.
C5_RetryAfter ==
  [][\A r \in Slots :
       (req[r].pc = "rlDecide" /\ req'[r].admission = "Denied") =>
         /\ req'[r].now = clock
         /\ req'[r].resp.resetAt = req[r].rateData.window_start + WindowTicks
         /\ req'[r].resp.resetAt = rate_limits[req[r].user].window_start + WindowTicks
         /\ req'[r].resp.resetAt - clock > 0]_vars

\* C5 witness: a request was Denied some time after the window's start.
C5_Witness ==
  \E r \in Slots :
    /\ req[r].admission = "Denied"
    /\ req[r].now > req[r].rateData.window_start
    /\ req[r].resp.resetAt - req[r].now = 1

\* The provider API keys the handler validates are set.
Configured == env.bytez /\ env.openrouter

\* C6 (as stated): a chat request with a missing or invalid credential
\* ends in Failed(Unauthenticated) and makes no rate-limit store access,
\* embedding call, retrieval call or completion call.
C6_UnauthenticatedStops ==
  \A r \in Slots :
    LET q == req[r] IN
    (q.body = "ok" /\ q.cred \in {"missing", "invalid"}) =>
      /\ q.calls \cap PipelineCalls = {}
      /\ q.pc = "done" => q.kind = "Unauthenticated"

\* C6 (amended): a chat request with a missing or invalid credential makes
\* no rate-limit store access, embedding call, retrieval call or completion
\* call, and it ends in Failed(Unauthenticated) when its body is well formed
\* and the server's secrets are all set.
C6_UnauthenticatedStopsConfigured ==
  \A r \in Slots :
    LET q == req[r] IN
    (q.body \in ChatBodies /\ q.cred \in {"missing", "invalid"}) =>
      /\ q.calls \cap PipelineCalls = {}
      /\ (q.pc = "done" /\ q.body = "ok" /\ Configured) => q.kind = "Unauthenticated"

\* C6 witness: the auth service rejected the credential of a well-formed
\* chat request, which ended Unauthenticated.
C6_Witness ==
  \E r \in Slots :
    /\ req[r].body = "ok"
    /\ req[r].cred = "invalid"
    /\ req[r].pc = "done"
    /\ "auth" \in req[r].calls
    /\ req[r].kind = "Unauthenticated"

\* C7: an embed-only request without a valid credential makes no call to
\* the embedding provider and is never answered an embedding.
C7_EmbedRequiresAuth ==
  \A r \in Slots :
    (req[r].body \in EmbedBodies /\ req[r].cred # "valid") =>
      /\ "embed" \notin req[r].calls
      /\ req[r].resp.embedding = "none"

\* C8: a request the rate limiter Denies ends in Failed(RateLimited) with
\* the retry-after, makes no embedding, retrieval or completion call, and
\* asked the rate limiter once.
C8_DeniedStops ==
  \A r \in Slots :
    LET q == req[r] IN
    q.admission = "Denied" =>
      /\ q.pc = "done"
      /\ q.kind = "RateLimited"
      /\ q.resp.status = 429
      /\ q.resp.resetAt > q.now
      /\ q.resp.response = "none"
      /\ q.calls = {"auth", "store"}
      /\ q.selects = 1

\* C8 witness: a request was Denied.
C8_Witness ==
  \E r \in Slots : req[r].admission = "Denied" /\ req[r].kind = "RateLimited"

\* The embedding provider failed: a non-success status or a network failure.
EmbeddingFailed(q) == q.embedRes \in {"httpError", "networkError"}

\* C9: in chat mode a failure of the embedding provider does not fail the
\* request: the match list is empty, the system instruction is the
\* ungrounded one, the completion call is made, and a success response
\* carries the answer without citations.
C9_EmbeddingFailureDegrades ==
  \A r \in Slots :
    LET q == req[r] IN
    (q.body \in ChatBodies /\ EmbeddingFailed(q)) =>
      /\ q.kind # "EmbeddingFailure"
      /\ q.docs = << >>
      /\ q.prompt = "ungrounded"
      /\ q.pc = "done" => "complete" \in q.calls
      /\ q.kind = "Success" => (q.resp.response # "none" /\ q.resp.citations = << >>)

\* fragment sequence body occurs in text.
Contains(text, body) ==
  \E i \in 0..(Len(text) - Len(body)) :
    \A j \in 1..Len(body) : text[i + j] = body[j]

\* C10: a non-success status of the completion provider ends the request
\* in Failed(UpstreamCompletion) with an error text that is the same for
\* every upstream body and does not contain the body.
C10_SanitizedCompletionError ==
  \A r \in Slots :
    LET q == req[r] IN
    (q.pc = "done" /\ q.upStatus # 0) =>
      /\ q.kind = "UpstreamCompletion"
      /\ \A other \in UpBodies :
           CatchMessage(BytezErrorMessage(q.upStatus, other)) = q.resp.error
      /\ q.upBody # << >> => ~Contains(q.resp.error, q.upBody)

\* The ids of the stored documents whose similarity is above the threshold
\* of the call rpc.
Qualifying(rpc) == {i \in DOMAIN rpc.sims : rpc.sims[i] > rpc.match_threshold}

\* C11: a call of match_documents returns at most match_count matches, each
\* a stored document with its similarity, and every returned similarity is
\* strictly above match_threshold; a search that did not run yields no
\* match.
C11_MatchesBounded ==
  \A r \in Slots :
    LET q == req[r] IN
    /\ q.rpc = NoRpc => q.docs = << >>
    /\ q.rpc # NoRpc =>
         /\ Len(q.docs) <= q.rpc.match_count
         /\ \A i \in DOMAIN q.docs :
              /\ q.docs[i].id \in DOMAIN q.rpc.sims
              /\ q.docs[i].similarity = q.rpc.sims[q.docs[i].id]
              /\ q.docs[i].similarity > q.rpc.match_threshold

\* C11 witness: a call against a table holding a document whose similarity
\* equals the threshold and more than match_count documents above it
\* returned match_count matches.
C11_Witness ==
  \E r \in Slots :
    LET q == req[r] IN
    /\ q.rpc # NoRpc
    /\ q.rpc.match_count > 0
    /\ \E i \in DOMAIN q.rpc.sims : q.rpc.sims[i] = q.rpc.match_threshold
    /\ Cardinality(Qualifying(q.rpc)) > q.rpc.match_count
    /\ Len(q.docs) = q.rpc.match_count

\* The smaller of two numbers.
Min(a, b) == IF a <= b THEN a ELSE b

\* C12: a call of match_documents returns distinct documents from among
\* those above the threshold, match_count of them or all when fewer
\* qualify, in descending similarity order, and no document left out is
\* more similar than one returned.
C12_TopMatchesDescending ==
  \A r \in Slots :
    LET q == req[r]
        ids == {q.docs[i].id : i \in DOMAIN q.docs}
    IN q.rpc # NoRpc =>
         /\ Len(q.docs) = Min(q.rpc.match_count, Cardinality(Qualifying(q.rpc)))
         /\ ids \subseteq Qualifying(q.rpc)
         /\ Cardinality(ids) = Len(q.docs)
         /\ \A i \in DOMAIN q.docs : q.docs[i].similarity = q.rpc.sims[q.docs[i].id]
         /\ \A i, j \in DOMAIN q.docs :
              i < j => q.docs[i].similarity >= q.docs[j].similarity
         /\ \A d \in Qualifying(q.rpc) \ ids, i \in DOMAIN q.docs :
              q.docs[i].similarity >= q.rpc.sims[d]

\* C12 witness: threshold 0.5, match_count 3 and similarities
\* [0.9, 0.6, 0.4, 0.3] returned the two matches [0.9, 0.6].
C12_Witness ==
  \E r \in Slots :
    /\ req[r].rpc = [sims |-> <<90, 60, 40, 30>>, match_threshold |-> 50,
                     match_count |-> 3]
    /\ req[r].docs = <<[id |-> 1, similarity |-> 90], [id |-> 2, similarity |-> 60]>>

\* C13: a success response to a chat request carries one citation per match
\* restated in the system prompt, in the same order, with that match's id
\* and similarity, and none when no match was restated.
C13_CitationsAreContext ==
  \A r \in Slots :
    LET q == req[r] IN
    (q.pc = "done" /\ q.kind = "Success" /\ q.body \in ChatBodies) =>
      /\ Len(q.resp.citations) = Len(q.context)
      /\ \A i \in DOMAIN q.context :
           /\ q.resp.citations[i].id = q.context[i]
           /\ q.resp.citations[i].similarity = q.rpc.sims[q.context[i]]

\* C13 witness: the RAG variant answered with the two citations of the two
\* matches restated in its prompt.
C13_Witness ==
  \E r \in Slots :
    /\ deployed = "rag"
    /\ req[r].pc = "done"
    /\ req[r].kind = "Success"
    /\ req[r].prompt = "grounded"
    /\ req[r].context = <<1, 2>>
    /\ Len(req[r].resp.citations) = 2

\* C14: an embed-only request whose embedding call did not yield a vector
\* (a non-success status, a network failure, a malformed body, a body
\* without the vector) is answered a failure with an error text, and makes
\* no retrieval or completion call.
C14_EmbedOnlyFailureSurfaced ==
  \A r \in Slots :
    LET q == req[r] IN
    (q.body = "embed" /\ q.pc = "done" /\ q.embedRes \in EmbedOutcomes \ {"vector"}) =>
      /\ q.kind = "EmbeddingFailure"
      /\ q.resp.error # << >>
      /\ q.resp.embedding = "none"
      /\ q.calls \cap {"search", "complete"} = {}

\* C15: a chat request whose vector search failed (an error result or a
\* thrown exception) is not failed for it: its match list is empty, it is
\* answered only after the completion call, and a success response carries
\* no citations.
C15_SearchFailureDegrades ==
  \A r \in Slots :
    LET q == req[r] IN
    q.searchRes \in {"error", "throws"} =>
      /\ q.kind # "RetrievalFailure"
      /\ q.docs = << >>
      /\ q.pc = "done" => "complete" \in q.calls
      /\ q.kind = "Success" => (q.resp.response # "none" /\ q.resp.citations = << >>)

\* Every API key a handler reads from Deno.env is set.
SecretsSet == env.bytez /\ env.openrouter /\ env.gemini

\* C16: while an API key of the server is missing, no request calls the
\* embedding or the completion provider (the calls made with that key), and
\* a well-formed request of an authenticated, admitted user ends in
\* ConfigurationMissing.
C16_MissingSecretStops ==
  \A r \in Slots :
    LET q == req[r] IN
    ~SecretsSet =>
      /\ q.calls \cap {"embed", "complete"} = {}
      /\ (q.pc = "done" /\ q.body = "ok" /\ q.cred = "valid" /\ q.admission # "Denied")
           => q.kind = "ConfigurationMissing"

\* The chat bodies that are not a non-empty list of messages with string
\* content.
Malformed(body) == body \in {"noMessages", "emptyList", "badContent", "badHistory"}

\* C17: with the server's API keys set, a chat request with a malformed
\* body makes no call to any collaborator and ends in InvalidInput.
C17_MalformedRejected ==
  \A r \in Slots :
    LET q == req[r] IN
    (Malformed(q.body) /\ SecretsSet) =>
      /\ q.calls = {}
      /\ q.pc \in {"idle", "done"}
      /\ q.pc = "done" => q.kind = "InvalidInput"

\* C18: a success response to a chat request carries a non-empty answer
\* text: a completion response with an empty or absent text ends the
\* request in a failure.
C18_SuccessHasAnswer ==
  \A r \in Slots :
    LET q == req[r] IN
    (q.pc = "done" /\ q.kind = "Success" /\ q.body \in ChatBodies) =>
      q.resp.response \notin {"", "none"}

\* C19: a request that has been received and not yet answered always has a
\* step left to take: when the call it awaits never replies, a timeout ends
\* the wait and the request goes on to its failure or degraded outcome.
C19_NoIndefiniteWait ==
  \A r \in Slots :
    req[r].pc \notin {"idle", "done"} => ENABLED (Next /\ req'[r] # req[r])

\* C20: the message list handed to the completion provider is one system
\* message holding the system prompt, followed by the messages of the
\* request with their roles and contents, in their order, the last message
\* of the request last.
C20_MessagesSent ==
  \A r \in Slots :
    LET q == req[r] IN
    "complete" \in q.calls =>
      q.sent = <<[role |-> "system", content |-> <<q.prompt>>]>> \o Messages(q.body)

\* C21: once the system prompt of a chat request is assembled, it is the
\* grounded one exactly when the match list of the request is not empty.
C21_GroundedIffMatches ==
  \A r \in Slots :
    LET q == req[r] IN
    q.prompt # "none" => (q.prompt = "grounded" <=> q.docs # << >>)

\* C22: a chat request has called the embedding provider or the search
\* only if the rate limiter Allowed it, and the completion provider only if
\* the auth service accepted its credential and the rate limiter Allowed
\* it.
C22_PipelineOrder ==
  \A r \in Slots :
    LET q == req[r] IN
    q.body \in ChatBodies =>
      /\ (q.calls \cap {"embed", "search"} # {}) => q.admission = "Allowed"
      /\ "complete" \in q.calls =>
           /\ "auth" \in q.calls
           /\ q.cred = "valid"
           /\ q.admission = "Allowed"

\* The responses the RAG variant can give to a completion fetch that was
\* rejected, that answered a non-success status, that answered no text.
RejectedResponses ==
  {[status |-> 200, error |-> CatchMessage(e)] : e \in FetchErrors}
NotOkResponses ==
  {[status |-> 200, error |-> CatchMessage(BytezErrorMessage(st, b))] :
     st \in UpStatuses, b \in UpBodies}
EmptyResponses ==
  {[status |-> 200, error |-> CatchMessage(<<"Invalid response from AI model">>)]}

\* C23: the response to a request whose completion call failed in one of
\* the three ways (non-success status, empty or absent text, network
\* failure) is a response that neither of the other two ways can produce,
\* whatever the status and the upstream body.
C23_DistinctCompletionFailures ==
  \A r \in Slots :
    LET q == req[r]
        out == [status |-> q.resp.status, error |-> q.resp.error]
    IN /\ q.completion = "notOk" => out \notin RejectedResponses \cup EmptyResponses
       /\ q.completion = "rejected" => out \notin NotOkResponses \cup EmptyResponses
       /\ q.completion = "empty" => out \notin NotOkResponses \cup RejectedResponses

\* C24: an embeddings response with a success status and a malformed or
\* absent vector is an embedding failure: an embed-only request is answered
\* EmbeddingFailure without an embedding, and a chat request goes on with an
\* empty match list to the completion call.
C24_BadVectorIsFailure ==
  \A r \in Slots :
    LET q == req[r] IN
    q.embedRes \in {"malformed", "absent"} =>
      /\ (q.body = "embed" /\ q.pc = "done") =>
           (q.kind = "EmbeddingFailure" /\ q.resp.error # << >>)
      /\ q.body \in ChatBodies =>
           /\ q.kind # "EmbeddingFailure"
           /\ q.docs = << >>
           /\ q.pc = "done" => "complete" \in q.calls

\* The requests of user u that found no row, were Allowed and have made
\* their insert.
FirstRequests(u) ==
  {r \in Slots : /\ req[r].user = u
                 /\ req[r].admission = "Allowed"
                 /\ req[r].op = "insert"
                 /\ req[r].pc \notin {"rlWrite", "pending"}}

\* C25: a key has at most one window (rate_limits is keyed by the primary
\* key), and after first requests of one key, concurrent or not, the window
\* one of them opened counts each of them.
C25_FirstRequestsCounted ==
  \A u \in Users :
    FirstRequests(u) # {} =>
      /\ rate_limits[u] # NoRow
      /\ rate_limits[u].window_start \in {req[r].now : r \in FirstRequests(u)}
           => rate_limits[u].request_count >= Cardinality(FirstRequests(u))

\* C26: an admission for a key reads only that key's window (the row the
\* select returns is the row of the request's own key, and the outcome is
\* the decision on that row and the request's now), and no step of a
\* request changes the window of another key.
C26_KeyFrame ==
  [][\A r \in Slots :
       LET q == req[r] IN
       /\ (q.pc = "rlSelect" /\ req'[r].pc = "rlDecide")
            => req'[r].rateData = rate_limits[q.user]
       /\ (q.pc = "rlDecide" /\ req'[r].pc # "rlDecide")
            => req'[r].admission = Admit(q.rateData, clock).outcome
       /\ req'[r] # q
            => \A v \in Keys \ {q.user} : rate_limits'[v] = rate_limits[v]]_vars

\* C26 witness: a request of one key was Denied while the other key, whose
\* window was below the limit, had a request Allowed and counted.
C26_Witness ==
  \E r, o \in Slots :
    /\ req[r].user # req[o].user
    /\ req[r].admission = "Denied"
    /\ rate_limits[req[r].user] = req[r].rateData
    /\ req[o].admission = "Allowed"
    /\ req[o].pc \notin {"rlDecide", "rlWrite"}
    /\ rate_limits[req[o].user] # req[o].rateData

\* The row an Allowed request's write is meant to leave.
Recorded(q) ==
  IF q.op = "increment"
  THEN [request_count |-> q.rateData.request_count + 1,
        window_start |-> q.rateData.window_start]
  ELSE [request_count |-> 1, window_start |-> q.now]

\* C27: a request whose select did not return the stored row ends there
\* with a server error, and a request goes on from its write to the
\* embedding only when the table holds the row that records its admission.
C27_ProceedsOnlyIfRecorded ==
  [][\A r \in Slots :
       LET q == req[r] IN
       /\ ( /\ q.pc = "rlSelect"
            /\ req'[r].pc \notin {"rlSelect", "pending"}
            /\ req'[r].rateData # rate_limits[q.user] )
            => (req'[r].pc = "done" /\ req'[r].resp.status >= 500)
       /\ (q.pc = "rlWrite" /\ req'[r].pc = "rlEmbed")
            => rate_limits'[q.user] = Recorded(q)]_vars

\* C28: a run of cleanup_old_rate_limits changes no key's admission outcome
\* at that instant, and whenever it runs, a request that was Allowed leaves
\* its write with a window of its key stored and request_count >= 1.
C28_CleanupLosesNoCount ==
  [][/\ req' = req =>
          \A u \in Users :
            Admit(rate_limits'[u], clock').outcome = Admit(rate_limits[u], clock').outcome
     /\ \A r \in Slots :
          (req[r].pc = "rlWrite" /\ req'[r].pc = "rlEmbed")
            => /\ rate_limits'[req[r].user] # NoRow
               /\ rate_limits'[req[r].user].request_count >= 1]_vars

\* C29: under any interleaving of requests, every row a handler step writes
\* has 1 <= request_count <= RATE_LIMIT, and no step of a request that is
\* not Allowed (so none of a Denied request) changes the table.
C29_CountInRange ==
  [][/\ \A u \in Users :
          (req' # req /\ rate_limits'[u] # rate_limits[u]) =>
            /\ rate_limits'[u].request_count >= 1
            /\ rate_limits'[u].request_count <= RATE_LIMIT
     /\ \A r \in Slots :
          (req'[r] # req[r] /\ rate_limits' # rate_limits)
            => (req[r].admission = "Allowed" /\ req'[r].admission = "Allowed")]_vars

\* C29 witness: one request was Denied at the limit, leaving the row as it
\* read it, after a concurrent request wrote the row that reached the limit.
C29_Witness ==
  \E r, o \in Slots :
    /\ r # o
    /\ req[r].admission = "Denied"
    /\ req[r].pc = "done"
    /\ rate_limits[req[r].user] = req[r].rateData
    /\ req[o].user = req[r].user
    /\ req[o].op = "increment"
    /\ req[o].pc \notin {"rlDecide", "rlWrite"}
    /\ rate_limits[req[o].user].request_count = req[o].rateData.request_count + 1
    /\ rate_limits[req[o].user].request_count = RATE_LIMIT

\* The handler answered the upload's embed request without an embedding:
\* an error status, or a status-200 body with an error or nothing in it.
ReportsNoEmbedding(q) ==
  /\ q.body = "embed"
  /\ q.pc = "done"
  /\ q.resp.embedding = "none"

====
